---------------------------- MODULE Spec2Model ----------------------------
(***************************************************************************)
(* A model of the testcase lifecycle of the fuzzing core:                  *)
(*   - FileBackedTestcase (afl/src/corpus/testcase.rs): the three-state    *)
(*     Stored / Loaded / Dirty machine and its load, refresh, save and     *)
(*     unload transitions, each of which takes the testcase BY VALUE and   *)
(*     returns Result<Self, AflError>;                                     *)
(*   - Testcase::load_input: lazy materialisation of the input.            *)
(*   - the metadata stores of Testcase and StdState, the weighted          *)
(*     scheduler (libafl/src/schedulers/weighted.rs) and StdState's        *)
(*     feedback and objective states (libafl/src/state/mod.rs), each under *)
(*     a specification of its own.                                         *)
(* The file system is a map from paths to optional byte strings.  I/O      *)
(* failures are chosen nondeterministically by the environment.            *)
(***************************************************************************)
EXTENDS Integers, Sequences, FiniteSets, TLC

VARIABLES
    fs,         \* the file system: Path -> Option(Bytes)
    held,       \* the FileBackedTestcase the caller owns: Option(testcase)
    call,       \* history: the last lifecycle call (receiver, file system before, outcome)
    fresh,      \* history: held was just constructed as Stored and not yet used
    lastSaved,  \* history: Option([path, input]) of the last completed save still on disk
    testcase,   \* the corpus Testcase { input, filename }
    tcall,      \* history: the last call on `testcase`
    metadatas,  \* Testcase.metadatas: the entries of the per-testcase store
    metadata,   \* StdState.metadata: the entries of the global store
    mcall,      \* history: the last insertion into a metadata store
    everIn,     \* history: the keys ever inserted, per store
    corpus,     \* the scheduler's corpus: a sequence of testcases (index 0 first)
    current,    \* corpus.current(): Option(index)
    psmeta,     \* state.metadata().get::<PowerScheduleMetadata>()
    wsmeta,     \* state.metadata().get::<WeightedScheduleMetadata>()
    scall,      \* history: the last scheduler call
    parents,    \* history: per testcase, the selection current at its on_add
    streak,     \* history: the run of successful next() calls begun at runs = 0
    heap,       \* the Rc allocations: Cell -> Option((FS, OS)), the RefCell's content
    states,     \* the StdState values alive: the first, then its clones
    handles,    \* the Rc handles given out by feedback_objective_states()
    stcall      \* history: the last call on a StdState or through a handle

vars == <<fs, held, call, fresh, lastSaved, testcase, tcall,
          metadatas, metadata, mcall, everIn,
          corpus, current, psmeta, wsmeta, scall, parents, streak,
          heap, states, handles, stcall>>

fbVars == <<held, call, fresh, lastSaved>>
tcVars == <<testcase, tcall>>
mdVars == <<metadatas, metadata, mcall, everIn>>
wsVars == <<corpus, current, psmeta, wsmeta, scall, parents, streak>>
stVars == <<heap, states, handles, stcall>>

-----------------------------------------------------------------------------
(* Bounds and value domains *)

\* longest input / file content, in bytes
MaxLen == 2

Byte == {0, 1}

Bytes == UNION {[1..n -> Byte] : n \in 0..MaxLen}

Path == {"a", "b"}

\* Option<T>: None is the empty set, Some(x) the singleton
None == {}
Some(x) == {x}
Option(S) == {None} \cup {Some(x) : x \in S}
unwrap(o) == CHOOSE x \in o : TRUE

\* An input value: a structure owning its bytes
Input == [bytes : Bytes]

FileSystem == [Path -> Option(Bytes)]

\* What the environment does to the I/O of one call: which step fails, and for
\* a failing write how many bytes reached the file before the failure.
IoOutcome ==
    {[fail |-> f, k |-> 0] : f \in {"none", "open", "read", "create", "serialize"}}
        \cup {[fail |-> "write", k |-> k] : k \in 0..(MaxLen - 1)}

IoOk == [fail |-> "none", k |-> 0]

Ev(kind, path) == [kind |-> kind, path |-> path]

-----------------------------------------------------------------------------
(* The Input boundary: serialization to bytes, deserialization from a file *)

\* Input::serialize(&self) -> Result<&[u8], AflError>
serialize(input, io) ==
    IF io.fail = "serialize"
    THEN [ok |-> FALSE, bytes |-> <<>>]
    ELSE [ok |-> TRUE, bytes |-> input.bytes]

\* Input::deserialize(buf)
deserialize(buf) == [bytes |-> buf]

\* Input::from_file(path): open the file, read it to the end, deserialize
from_file(path, fsys, io) ==
    IF fsys[path] = None \/ io.fail = "open"
    THEN [res |-> "IoError", input |-> None, events |-> <<Ev("open", path)>>]
    ELSE IF io.fail = "read"
    THEN [res |-> "IoError", input |-> None,
          events |-> <<Ev("open", path), Ev("read", path)>>]
    ELSE [res |-> "Ok", input |-> Some(deserialize(unwrap(fsys[path]))),
          events |-> <<Ev("open", path), Ev("read", path)>>]

-----------------------------------------------------------------------------
(* enum FileBackedTestcase<I, P> *)

Stored(filename) == [tag |-> "Stored", input |-> None, filename |-> filename]
Loaded(input, filename) == [tag |-> "Loaded", input |-> Some(input), filename |-> filename]
Dirty(input, filename) == [tag |-> "Dirty", input |-> Some(input), filename |-> filename]

FileBackedTestcase ==
    {Stored(p) : p \in Path}
        \cup {Loaded(i, p) : i \in Input, p \in Path}
        \cup {Dirty(i, p) : i \in Input, p \in Path}

\* Result<Self, AflError> together with the call's effect on the file system.
\* An Err carries only the error: the receiver, passed by value, is dropped.
Ok(val, fsys, events) ==
    [res |-> "Ok", val |-> Some(val), fs |-> fsys, events |-> events]
Err(kind, fsys, events) ==
    [res |-> kind, val |-> None, fs |-> fsys, events |-> events]

\* load, but a Loaded testcase is read from its file again
load_rereads(self, fsys, io) ==
    CASE self.tag \in {"Stored", "Loaded"} ->
            LET r == from_file(self.filename, fsys, io)
            IN  IF r.res = "Ok"
                THEN Ok(Loaded(unwrap(r.input), self.filename), fsys, r.events)
                ELSE Err(r.res, fsys, r.events)
      [] OTHER -> Err("IllegalState", fsys, <<>>)

\* FileBackedTestcase::load(self)
load(self, fsys, io) ==
    CASE self.tag = "Stored" ->
            LET r == from_file(self.filename, fsys, io)
            IN  IF r.res = "Ok"
                THEN Ok(Loaded(unwrap(r.input), self.filename), fsys, r.events)
                ELSE Err(r.res, fsys, r.events)
      [] self.tag = "Loaded" -> Ok(self, fsys, <<>>)
      [] OTHER -> Err("IllegalState", fsys, <<>>)

\* save, but a Dirty testcase becomes Loaded without its file being written
save_skipsWrite(self, fsys, io) ==
    CASE self.tag = "Loaded" -> Ok(self, fsys, <<>>)
      [] self.tag = "Dirty" -> Ok(Loaded(unwrap(self.input), self.filename), fsys, <<>>)
      [] OTHER -> Err("IllegalState", fsys, <<>>)

\* save, but the testcase written to its file is returned still Dirty
save_staysDirty(self, fsys, io) ==
    CASE self.tag = "Loaded" -> Ok(self, fsys, <<>>)
      [] self.tag = "Dirty" ->
            LET fn == self.filename
                s == serialize(unwrap(self.input), io)
            IN  IF io.fail = "create"
                THEN Err("IoError", fsys, <<Ev("create", fn)>>)
                ELSE IF ~s.ok
                THEN Err("SerializeError", [fsys EXCEPT ![fn] = Some(<<>>)],
                         <<Ev("create", fn)>>)
                ELSE IF io.fail = "write" /\ io.k < Len(s.bytes)
                THEN Err("IoError",
                         [fsys EXCEPT ![fn] = Some(SubSeq(s.bytes, 1, io.k))],
                         <<Ev("create", fn), Ev("write", fn)>>)
                ELSE Ok(self,
                        [fsys EXCEPT ![fn] = Some(s.bytes)],
                        <<Ev("create", fn), Ev("write", fn)>>)
      [] OTHER -> Err("IllegalState", fsys, <<>>)

\* save, but with write in place of write_all: a short write is taken for success
save_shortWrite(self, fsys, io) ==
    CASE self.tag = "Loaded" -> Ok(self, fsys, <<>>)
      [] self.tag = "Dirty" ->
            LET fn == self.filename
                input == unwrap(self.input)
                s == serialize(input, io)
            IN  IF io.fail = "create"
                THEN Err("IoError", fsys, <<Ev("create", fn)>>)
                ELSE IF ~s.ok
                THEN Err("SerializeError", [fsys EXCEPT ![fn] = Some(<<>>)],
                         <<Ev("create", fn)>>)
                ELSE IF io.fail = "write" /\ io.k < Len(s.bytes)
                THEN Ok(Loaded(input, fn),
                        [fsys EXCEPT ![fn] = Some(SubSeq(s.bytes, 1, io.k))],
                        <<Ev("create", fn), Ev("write", fn)>>)
                ELSE Ok(Loaded(input, fn),
                        [fsys EXCEPT ![fn] = Some(s.bytes)],
                        <<Ev("create", fn), Ev("write", fn)>>)
      [] OTHER -> Err("IllegalState", fsys, <<>>)

\* save, but the file is created under a fixed name, not the testcase's own
save_fixedPath(self, fsys, io) ==
    CASE self.tag = "Loaded" -> Ok(self, fsys, <<>>)
      [] self.tag = "Dirty" ->
            LET fn == "a"
                input == unwrap(self.input)
                s == serialize(input, io)
            IN  IF io.fail = "create"
                THEN Err("IoError", fsys, <<Ev("create", fn)>>)
                ELSE IF ~s.ok
                THEN Err("SerializeError", [fsys EXCEPT ![fn] = Some(<<>>)],
                         <<Ev("create", fn)>>)
                ELSE IF io.fail = "write" /\ io.k < Len(s.bytes)
                THEN Err("IoError",
                         [fsys EXCEPT ![fn] = Some(SubSeq(s.bytes, 1, io.k))],
                         <<Ev("create", fn), Ev("write", fn)>>)
                ELSE Ok(Loaded(input, self.filename),
                        [fsys EXCEPT ![fn] = Some(s.bytes)],
                        <<Ev("create", fn), Ev("write", fn)>>)
      [] OTHER -> Err("IllegalState", fsys, <<>>)

\* FileBackedTestcase::save(self)
save(self, fsys, io) ==
    CASE self.tag = "Loaded" -> Ok(self, fsys, <<>>)
      [] self.tag = "Dirty" ->
            LET fn == self.filename
                input == unwrap(self.input)
                \* File::create truncates an existing file
                created == [fsys EXCEPT ![fn] = Some(<<>>)]
                s == serialize(input, io)
            IN  IF io.fail = "create"
                THEN Err("IoError", fsys, <<Ev("create", fn)>>)
                ELSE IF ~s.ok
                THEN Err("SerializeError", created, <<Ev("create", fn)>>)
                ELSE IF io.fail = "write" /\ io.k < Len(s.bytes)
                THEN Err("IoError",
                         [fsys EXCEPT ![fn] = Some(SubSeq(s.bytes, 1, io.k))],
                         <<Ev("create", fn), Ev("write", fn)>>)
                ELSE Ok(Loaded(input, fn),
                        [fsys EXCEPT ![fn] = Some(s.bytes)],
                        <<Ev("create", fn), Ev("write", fn)>>)
      [] OTHER -> Err("IllegalState", fsys, <<>>)

\* refresh, but every state is routed to load
refresh_alwaysLoads(self, fsys, io) == load(self, fsys, io)

\* FileBackedTestcase::refresh(self)
refresh(self, fsys, io) ==
    IF self.tag = "Dirty" THEN save(self, fsys, io) ELSE load(self, fsys, io)

\* unload, but a Dirty testcase is dropped from memory without a save
unload_dropsDirty(self, fsys, io) ==
    CASE self.tag \in {"Loaded", "Dirty"} -> Ok(Stored(self.filename), fsys, <<>>)
      [] OTHER -> Ok(self, fsys, <<>>)

\* FileBackedTestcase::unload(self)
unload(self, fsys, io) ==
    CASE self.tag = "Loaded" -> Ok(Stored(self.filename), fsys, <<>>)
      [] self.tag = "Stored" -> Ok(self, fsys, <<>>)
      [] OTHER -> save(self, fsys, io)

-----------------------------------------------------------------------------
(* struct Testcase<I> { input, filename, metadatas } *)

\* Testcase::new(input)
new(input) == [input |-> Some(input), filename |-> None]
\* Testcase::with_filename(input, filename)
with_filename(input, filename) == [input |-> Some(input), filename |-> Some(filename)]
\* Testcase::default()
default == [input |-> None, filename |-> None]

\* load_input, but the input read from the file is not kept in the testcase
load_input_noCache(self, fsys, io) ==
    IF self.input = None
    THEN IF self.filename = None
         THEN [res |-> "EmptyOptional", ret |-> None, self |-> self, events |-> <<>>]
         ELSE LET r == from_file(unwrap(self.filename), fsys, io)
              IN  [res |-> r.res, ret |-> r.input, self |-> self, events |-> r.events]
    ELSE [res |-> "Ok", ret |-> self.input, self |-> self, events |-> <<>>]

\* Testcase::load_input(&mut self) -> Result<&I, AflError>
load_input(self, fsys, io) ==
    IF self.input = None
    THEN IF self.filename = None
         THEN [res |-> "EmptyOptional", ret |-> None, self |-> self, events |-> <<>>]
         ELSE LET r == from_file(unwrap(self.filename), fsys, io)
              IN  IF r.res = "Ok"
                  THEN [res |-> "Ok", ret |-> r.input,
                        self |-> [self EXCEPT !.input = r.input], events |-> r.events]
                  ELSE [res |-> r.res, ret |-> None, self |-> self, events |-> r.events]
    ELSE [res |-> "Ok", ret |-> self.input, self |-> self, events |-> <<>>]

-----------------------------------------------------------------------------
(* The metadata stores: Testcase.metadatas (a HashMap keyed by the name of  *)
(* the metadata) and StdState.metadata (a SerdeAnyMap keyed by the type).   *)
(* A store is the set of its entries [key, val].                             *)

MetaType == {"PowerScheduleMetadata", "WeightedScheduleMetadata", "PowerScheduleTestcaseMetaData"}
MetaVal == {"v1", "v2"}

\* a metadata value: an instance of one of the types
Meta == [type : MetaType, val : MetaVal]

\* TestcaseMetadata::name(&self): every type names itself, uniquely
name(meta) == meta.type

\* HashMap::insert / SerdeAnyMap::insert: the entry of the key is replaced
insert(map, key, val) ==
    {e \in map : e.key # key} \cup {[key |-> key, val |-> val]}

\* HashMap::get / SerdeAnyMap::get::<T>: Option of the value stored for the key
get(map, key) == {e.val : e \in {x \in map : x.key = key}}

\* add_metadata, but an entry already present for the name is kept
add_metadata_keepsFirst(map, meta) ==
    IF get(map, name(meta)) # None THEN map ELSE insert(map, name(meta), meta)

\* Testcase::add_metadata(&mut self, meta)
add_metadata(map, meta) == insert(map, name(meta), meta)

\* HasMetadata::add_metadata::<M>(&mut self, meta)
HasMetadata_add_metadata(map, meta) == insert(map, meta.type, meta)

\* HasMetadata::has_metadata::<M>(&self)
has_metadata(map, type) == get(map, type) # None

NoMCall == [op |-> "none", store |-> "none", before |-> {}, meta |-> {}]

NoneInserted == [testcase |-> {}, state |-> {}]

MetadataIdle ==
    /\ metadatas = {}
    /\ metadata = {}
    /\ mcall = NoMCall
    /\ everIn = NoneInserted

-----------------------------------------------------------------------------
(* The weighted scheduler (libafl/src/schedulers/weighted.rs).  Indices are  *)
(* those of the code, from 0; At reads a Vec at such an index.               *)

\* largest corpus
MaxCorpus == 3
\* largest value the queue-cycle counter is followed to
MaxCycles == 2

At(vec, i) == vec[i + 1]
InRange(vec, i) == i >= 0 /\ i < Len(vec)

\* PowerSchedule: COE asks for the entropy estimate, the others do not
PowerSchedule == {"COE", "FAST"}

\* PowerScheduleMetadata::new(strat)
PowerScheduleMetadata_new(strat) == [strat |-> strat, queue_cycles |-> 0]

\* PowerScheduleTestcaseMetaData::new(depth)
PowerScheduleTestcaseMetaData_new(depth) == [depth |-> depth, n_fuzz_entry |-> 0]

\* WeightedScheduleMetadata::new()
WeightedScheduleMetadata_new ==
    [runs_in_current_cycle |-> 0, alias_table |-> <<0>>,
     alias_probability |-> <<0>>, perf_scores |-> <<0>>]

\* WeightedScheduleMetadata::set_runs_current_cycle
set_runs_current_cycle(ws, cycles) == [ws EXCEPT !.runs_in_current_cycle = cycles]

\* WeightedScheduleMetadata::set_alias_table
set_alias_table(ws, table) == [ws EXCEPT !.alias_table = table]

\* WeightedScheduleMetadata::set_alias_probability
set_alias_probability(ws, probability) == [ws EXCEPT !.alias_probability = probability]

\* a corpus entry, as the Corpus hands it out: a Testcase with its metadata
NewTestcase == [meta |-> None]

\* Testcase::calculate_score(psmeta, fuzz_mu): a positive score
calculate_score(tc, ps, fuzz_mu) ==
    IF tc.meta = None THEN 1 ELSE 1 + unwrap(tc.meta).depth

\* the values rand.below(u64::MAX) is followed for: every residue of the corpus count
Rand == 0..(MaxCorpus - 1)

\* vec![0, n], vec![0.0, n]: the two-element vectors create_alias_table works on
LocalVecLen == 2

\* The scheduler's view of the state: S: HasCorpus + HasMetadata + HasRand
State == [corpus |-> corpus, current |-> current, psmeta |-> psmeta, wsmeta |-> wsmeta]

\* WeightedScheduler::create_alias_table(&self, state): the result, and the
\* state it leaves.  It keeps its tables in locals and stores none of them.
create_alias_table(st) ==
    LET n == Len(st.corpus)
        coe == st.psmeta # None /\ unwrap(st.psmeta).strat = "COE"
        res ==
            IF st.psmeta = None
            THEN "KeyNotFound"
            ELSE IF coe /\ \E i \in 0..(n - 1) : At(st.corpus, i).meta = None
            THEN "KeyNotFound"
            ELSE IF coe /\ n = 0
            THEN "Unknown"
            \* perf_scores[i] = perf_score, for i in 0..n
            ELSE IF n > LocalVecLen
            THEN "panic"
            ELSE "Ok"
    IN  [res |-> res, st |-> st]

\* on_add, but a testcase added with no current selection gets depth 0
on_add_seedDepth0(st, idx) ==
    LET parent == st.current
    IN  IF parent # None /\ At(st.corpus, unwrap(parent)).meta = None
        THEN [res |-> "KeyNotFound", st |-> st, rebuild |-> None]
        ELSE LET depth == IF parent = None
                          THEN 0
                          ELSE unwrap(At(st.corpus, unwrap(parent)).meta).depth + 1
                 st1 == [st EXCEPT !.corpus[idx + 1].meta =
                                        Some(PowerScheduleTestcaseMetaData_new(depth))]
                 rb == create_alias_table(st1)
             IN  [res |-> IF rb.res = "panic" THEN "panic" ELSE "Ok",
                  st |-> rb.st, rebuild |-> Some(rb.res)]

\* on_add, but the new testcase is made the corpus's current selection
on_add_movesCurrent(st, idx) ==
    LET parent == st.current
    IN  IF parent # None /\ At(st.corpus, unwrap(parent)).meta = None
        THEN [res |-> "KeyNotFound", st |-> st, rebuild |-> None]
        ELSE LET d0 == IF parent = None
                       THEN 0
                       ELSE unwrap(At(st.corpus, unwrap(parent)).meta).depth
                 depth == d0 + 1
                 st1 == [st EXCEPT !.corpus[idx + 1].meta =
                                        Some(PowerScheduleTestcaseMetaData_new(depth)),
                                   !.current = Some(idx)]
                 rb == create_alias_table(st1)
             IN  [res |-> IF rb.res = "panic" THEN "panic" ELSE "Ok",
                  st |-> rb.st, rebuild |-> Some(rb.res)]

\* WeightedScheduler::on_add(&self, state, idx).  The Result of the rebuild is
\* dropped; only its panic reaches the caller.
on_add(st, idx) ==
    LET parent == st.current
    IN  IF parent # None /\ At(st.corpus, unwrap(parent)).meta = None
        THEN [res |-> "KeyNotFound", st |-> st, rebuild |-> None]
        ELSE LET d0 == IF parent = None
                       THEN 0
                       ELSE unwrap(At(st.corpus, unwrap(parent)).meta).depth
                 depth == d0 + 1
                 st1 == [st EXCEPT !.corpus[idx + 1].meta =
                                        Some(PowerScheduleTestcaseMetaData_new(depth))]
                 rb == create_alias_table(st1)
             IN  [res |-> IF rb.res = "panic" THEN "panic" ELSE "Ok",
                  st |-> rb.st, rebuild |-> Some(rb.res)]

\* the selection of next(): r = rand.below(u64::MAX), s = r % count, then
\* alias_probability()[s] and, unless r is below it, alias_table()[s]
Select(st, r) ==
    LET ws == unwrap(st.wsmeta)
        s == r % Len(st.corpus)
    IN  IF ~InRange(ws.alias_probability, s)
        THEN [res |-> "panic", ret |-> None, st |-> st, draws |-> 1]
        ELSE IF r < At(ws.alias_probability, s)
        THEN [res |-> "Ok", ret |-> Some(s), st |-> st, draws |-> 1]
        ELSE IF ~InRange(ws.alias_table, s)
        THEN [res |-> "panic", ret |-> None, st |-> st, draws |-> 1]
        ELSE [res |-> "Ok", ret |-> Some(At(ws.alias_table, s)), st |-> st, draws |-> 1]

Fails(kind, st) == [res |-> kind, ret |-> None, st |-> st, draws |-> 0]

\* next, but the scheduler metadata is looked up before the corpus is counted
next_looksUpFirst(st, r) ==
    IF st.wsmeta = None
    THEN Fails("KeyNotFound", st)
    ELSE IF Len(st.corpus) = 0
    THEN Fails("Empty", st)
    ELSE Select(st, r)

\* next, but runs_in_current_cycle is reset before PowerScheduleMetadata is looked up
next_resetsFirst(st, r) ==
    IF Len(st.corpus) = 0
    THEN Fails("Empty", st)
    ELSE IF st.wsmeta = None
    THEN Fails("KeyNotFound", st)
    ELSE LET ws == unwrap(st.wsmeta)
         IN  IF ws.runs_in_current_cycle > Len(st.corpus)
             THEN LET st1 == [st EXCEPT !.wsmeta = Some(set_runs_current_cycle(ws, 0))]
                  IN  IF st.psmeta = None
                      THEN Fails("KeyNotFound", st1)
                      ELSE Select([st1 EXCEPT !.psmeta =
                                       Some([unwrap(st.psmeta) EXCEPT !.queue_cycles = @ + 1])],
                                  r)
             ELSE Select(st, r)

\* WeightedScheduler::next(&self, state)
next(st, r) ==
    IF Len(st.corpus) = 0
    THEN Fails("Empty", st)
    ELSE IF st.wsmeta = None
    THEN Fails("KeyNotFound", st)
    ELSE LET ws == unwrap(st.wsmeta)
         IN  IF ws.runs_in_current_cycle > Len(st.corpus)
             THEN IF st.psmeta = None
                  THEN Fails("KeyNotFound", st)
                  ELSE Select([st EXCEPT
                                  !.psmeta = Some([unwrap(st.psmeta) EXCEPT
                                                       !.queue_cycles = @ + 1]),
                                  !.wsmeta = Some(set_runs_current_cycle(ws, 0))],
                              r)
             \* wsmeta.set_runs_current_cycle(wsmeta.runs_in_current_cycle())
             ELSE Select([st EXCEPT !.wsmeta =
                              Some(set_runs_current_cycle(ws, ws.runs_in_current_cycle))],
                         r)

NoSCall ==
    [op |-> "none", res |-> "Ok", ret |-> None, idx |-> None, rebuild |-> None,
     draws |-> 0, r |-> None, before |-> [corpus |-> <<>>, current |-> None,
                              psmeta |-> None, wsmeta |-> None]]

NoStreak == [n |-> 0, cyc0 |-> 0]

SchedulerIdle ==
    /\ corpus = <<>>
    /\ current = None
    /\ psmeta = None
    /\ wsmeta = None
    /\ scall = NoSCall
    /\ parents = <<>>
    /\ streak = NoStreak

-----------------------------------------------------------------------------
(* StdState and its feedback and objective states (libafl/src/state/mod.rs): *)
(* an Rc<RefCell<(FS, OS)>> is a reference to a cell of the heap.            *)

\* most StdState values alive at once (the first and its clones)
MaxStates == 2
\* most handles given out
MaxHandles == 3

Cell == 1..MaxStates

\* a feedback state and an objective state: FS and OS are plain values
FeedbackState == {0, 1}
FOStates == FeedbackState \X FeedbackState

\* Rc::new(RefCell::new(v)): the cell taken, and the heap with v in it
Rc_new(hp, v) ==
    LET c == CHOOSE c \in Cell : hp[c] = None /\ \A d \in Cell : hp[d] = None => c <= d
    IN  [rc |-> c, heap |-> [hp EXCEPT ![c] = Some(v)]]

\* rc.borrow().deref()
borrow(hp, rc) == unwrap(hp[rc])

\* clone, but the Rc is cloned as a derived Clone would do it
clone_sharesCell(self, hp) ==
    [val |-> [feedback_objective_states |-> self.feedback_objective_states], heap |-> hp]

\* StdState::clone(&self): a new Rc around clones of the two states
clone(self, hp) ==
    LET fo == borrow(hp, self.feedback_objective_states)
        feedback_state == fo[1]
        objective_state == fo[2]
        n == Rc_new(hp, <<feedback_state, objective_state>>)
    IN  [val |-> [feedback_objective_states |-> n.rc], heap |-> n.heap]

\* StdState::feedback_objective_states(&self): self.feedback_objective_states.clone()
feedback_objective_states(self) == self.feedback_objective_states

\* *rc.borrow_mut() = v
borrow_mut_set(hp, rc, v) == [hp EXCEPT ![rc] = Some(v)]

\* the feedback and objective states as read through a StdState, and through a handle
Seen(self, hp) == borrow(hp, feedback_objective_states(self))
Through(handle, hp) == borrow(hp, handle.rc)

NoStCall == [op |-> "none", state |-> None, handle |-> None, v |-> None,
             before |-> <<>>]

StateIdle ==
    /\ heap = [c \in Cell |-> None]
    /\ states = <<>>
    /\ handles = <<>>
    /\ stcall = NoStCall

-----------------------------------------------------------------------------
(* The caller of the file-backed lifecycle *)

NoCall ==
    [op |-> "none", self |-> None, fs0 |-> [p \in Path |-> None], io |-> IoOk,
     res |-> "Ok", events |-> <<>>, fresh |-> FALSE]

NoTCall ==
    [op |-> "none", self |-> default, io |-> IoOk, res |-> "Ok", ret |-> None,
     events |-> <<>>]

\* What a finished call leaves of the record of the last completed save
SavedAfter(self, r) ==
    IF r.res = "Ok" /\ r.events # <<>> /\ self.tag = "Dirty"
    THEN Some([path |-> self.filename, input |-> unwrap(self.input)])
    ELSE IF r.fs # fs /\ lastSaved # None /\ unwrap(lastSaved).path = self.filename
    THEN None
    ELSE lastSaved

\* The I/O failure a call ran into: none when the call went as it goes
\* without any failure injected (r0)
Happened(io, r, r0) == IF r = r0 THEN IoOk ELSE io

\* One call op(self) by the owner of `held`: the receiver is moved into the
\* call, and the caller is left with the value of an Ok, or with nothing.
Call(op, r, r0, io) ==
    /\ held' = r.val
    /\ fs' = r.fs
    /\ call' = [op |-> op, self |-> held, fs0 |-> fs, io |-> Happened(io, r, r0),
                res |-> r.res, events |-> r.events, fresh |-> fresh]
    /\ fresh' = FALSE
    /\ lastSaved' = SavedAfter(unwrap(held), r)
    /\ UNCHANGED <<tcVars, mdVars, wsVars, stVars>>

Load ==
    \E io \in IoOutcome :
        /\ held # None
        /\ Call("load", load(unwrap(held), fs, io), load(unwrap(held), fs, IoOk), io)

Save ==
    \E io \in IoOutcome :
        /\ held # None
        /\ Call("save", save(unwrap(held), fs, io), save(unwrap(held), fs, IoOk), io)

Refresh ==
    \E io \in IoOutcome :
        /\ held # None
        /\ Call("refresh", refresh(unwrap(held), fs, io), refresh(unwrap(held), fs, IoOk), io)

Unload ==
    \E io \in IoOutcome :
        /\ held # None
        /\ Call("unload", unload(unwrap(held), fs, io), unload(unwrap(held), fs, IoOk), io)

\* The owner mutates the in-memory input: Loaded or Dirty becomes Dirty
Mutate ==
    \E i \in Input :
        /\ held # None
        /\ unwrap(held).tag \in {"Loaded", "Dirty"}
        /\ i # unwrap(unwrap(held).input)
        /\ held' = Some(Dirty(i, unwrap(held).filename))
        /\ call' = [NoCall EXCEPT !.op = "mutate"]
        /\ fresh' = FALSE
        /\ UNCHANGED <<fs, lastSaved, tcVars, mdVars, wsVars, stVars>>

\* The owner drops what it holds and names a file: Stored { filename }
NewStored ==
    \E p \in Path :
        /\ held' = Some(Stored(p))
        /\ call' = [NoCall EXCEPT !.op = "new"]
        /\ fresh' = TRUE
        /\ UNCHANGED <<fs, lastSaved, tcVars, mdVars, wsVars, stVars>>

\* The owner drops what it holds and makes a new, unwritten testcase: Dirty { input, filename }
NewDirty ==
    \E i \in Input, p \in Path :
        /\ held' = Some(Dirty(i, p))
        /\ call' = [NoCall EXCEPT !.op = "new"]
        /\ fresh' = FALSE
        /\ UNCHANGED <<fs, lastSaved, tcVars, mdVars, wsVars, stVars>>

Init ==
    /\ fs \in FileSystem
    /\ held \in {Some(Stored(p)) : p \in Path}
                    \cup {Some(Dirty(i, p)) : i \in Input, p \in Path}
    /\ call = NoCall
    /\ fresh = (unwrap(held).tag = "Stored")
    /\ lastSaved = None
    /\ testcase = default
    /\ tcall = NoTCall
    /\ MetadataIdle
    /\ SchedulerIdle
    /\ StateIdle

Next ==
    \/ Load
    \/ Save
    \/ Refresh
    \/ Unload
    \/ Mutate
    \/ NewStored
    \/ NewDirty

Spec == Init /\ [][Next]_vars

-----------------------------------------------------------------------------
(* The owner of a corpus Testcase *)

LoadInput ==
    \E io \in IoOutcome :
        LET r == load_input(testcase, fs, io)
            r0 == load_input(testcase, fs, IoOk)
        IN  /\ testcase' = r.self
            /\ tcall' = [op |-> "load_input", self |-> testcase, io |-> Happened(io, r, r0),
                         res |-> r.res, ret |-> r.ret, events |-> r.events]
            /\ UNCHANGED <<fs, fbVars, mdVars, wsVars, stVars>>

\* *testcase.input_mut() = v
SetInput ==
    \E v \in Option(Input) :
        /\ v # testcase.input
        /\ testcase' = [testcase EXCEPT !.input = v]
        /\ tcall' = [NoTCall EXCEPT !.op = "input_mut"]
        /\ UNCHANGED <<fs, fbVars, mdVars, wsVars, stVars>>

\* *testcase.filename_mut() = v
SetFilename ==
    \E v \in Option(Path) :
        /\ v # testcase.filename
        /\ testcase' = [testcase EXCEPT !.filename = v]
        /\ tcall' = [NoTCall EXCEPT !.op = "filename_mut"]
        /\ UNCHANGED <<fs, fbVars, mdVars, wsVars, stVars>>

InitTestcase ==
    /\ fs \in FileSystem
    /\ testcase \in {default} \cup {new(i) : i \in Input}
                        \cup {with_filename(i, p) : i \in Input, p \in Path}
    /\ tcall = NoTCall
    /\ held = None
    /\ call = NoCall
    /\ fresh = FALSE
    /\ lastSaved = None
    /\ MetadataIdle
    /\ SchedulerIdle
    /\ StateIdle

NextTestcase ==
    \/ LoadInput
    \/ SetInput
    \/ SetFilename

SpecTestcase == InitTestcase /\ [][NextTestcase]_vars

-----------------------------------------------------------------------------
(* The users of the metadata stores *)

\* testcase.add_metadata(Box::new(meta))
TestcaseAddMetadata ==
    \E meta \in Meta :
        /\ metadatas' = add_metadata(metadatas, meta)
        /\ mcall' = [op |-> "add_metadata", store |-> "testcase",
                     before |-> metadatas, meta |-> Some(meta)]
        /\ everIn' = [everIn EXCEPT !.testcase = @ \cup {name(meta)}]
        /\ UNCHANGED <<fs, fbVars, tcVars, metadata, wsVars, stVars>>

\* state.add_metadata(meta)
StateAddMetadata ==
    \E meta \in Meta :
        /\ metadata' = HasMetadata_add_metadata(metadata, meta)
        /\ mcall' = [op |-> "add_metadata", store |-> "state",
                     before |-> metadata, meta |-> Some(meta)]
        /\ everIn' = [everIn EXCEPT !.state = @ \cup {meta.type}]
        /\ UNCHANGED <<fs, fbVars, tcVars, metadatas, wsVars, stVars>>

InitMetadata ==
    /\ fs = [p \in Path |-> None]
    /\ held = None
    /\ call = NoCall
    /\ fresh = FALSE
    /\ lastSaved = None
    /\ testcase = default
    /\ tcall = NoTCall
    /\ MetadataIdle
    /\ SchedulerIdle
    /\ StateIdle

NextMetadata ==
    \/ TestcaseAddMetadata
    \/ StateAddMetadata

SpecMetadata == InitMetadata /\ [][NextMetadata]_vars

-----------------------------------------------------------------------------
(* The driver of the scheduler *)

Running == scall.res # "panic"

\* what a call leaves in the state
Commit(st) ==
    /\ corpus' = st.corpus
    /\ current' = st.current
    /\ psmeta' = st.psmeta
    /\ wsmeta' = st.wsmeta

OtherIdle == UNCHANGED <<fs, fbVars, tcVars, mdVars, stVars>>

\* corpus.add(testcase): a new entry at index count
CorpusAdd ==
    /\ Running
    /\ Len(corpus) < MaxCorpus
    /\ corpus' = Append(corpus, NewTestcase)
    /\ parents' = Append(parents, None)
    /\ scall' = [NoSCall EXCEPT !.op = "add"]
    /\ streak' = NoStreak
    /\ UNCHANGED <<current, psmeta, wsmeta>>
    /\ OtherIdle

\* *corpus.current_mut() = c
SetCurrent ==
    \E c \in Option(0..(Len(corpus) - 1)) :
        /\ Running
        /\ c # current
        /\ current' = c
        /\ scall' = [NoSCall EXCEPT !.op = "current_mut"]
        /\ streak' = NoStreak
        /\ UNCHANGED <<corpus, psmeta, wsmeta, parents>>
        /\ OtherIdle

\* state.add_metadata(PowerScheduleMetadata::new(strat))
RegisterPowerSchedule ==
    \E strat \in PowerSchedule :
        /\ Running
        /\ psmeta = None
        /\ psmeta' = Some(PowerScheduleMetadata_new(strat))
        /\ scall' = [NoSCall EXCEPT !.op = "add_metadata"]
        /\ streak' = NoStreak
        /\ UNCHANGED <<corpus, current, wsmeta, parents>>
        /\ OtherIdle

\* state.add_metadata(WeightedScheduleMetadata::new())
RegisterWeighted ==
    /\ Running
    /\ wsmeta = None
    /\ wsmeta' = Some(WeightedScheduleMetadata_new)
    /\ scall' = [NoSCall EXCEPT !.op = "add_metadata"]
    /\ streak' = NoStreak
    /\ UNCHANGED <<corpus, current, psmeta, parents>>
    /\ OtherIdle

\* wsmeta.set_runs_current_cycle(c), by a user of the metadata
SetRuns ==
    \E c \in 0..(MaxCorpus + 1) :
        /\ Running
        /\ wsmeta # None
        /\ c # unwrap(wsmeta).runs_in_current_cycle
        /\ wsmeta' = Some(set_runs_current_cycle(unwrap(wsmeta), c))
        /\ scall' = [NoSCall EXCEPT !.op = "set_runs"]
        /\ streak' = NoStreak
        /\ UNCHANGED <<corpus, current, psmeta, parents>>
        /\ OtherIdle

\* wsmeta.set_alias_probability(..), wsmeta.set_alias_table(..), by a user of
\* the metadata: tables for the corpus as it is, each probability 0.0 or 1.0
\* and every alias the index `shift` places on
SetTables ==
    \E p \in [1..Len(corpus) -> {0, 1}], shift \in {0, 1} :
        LET n == Len(corpus)
            ws1 == set_alias_probability(unwrap(wsmeta), p)
            ws2 == set_alias_table(ws1, [i \in 1..n |-> (i - 1 + shift) % n])
        IN  /\ Running
            /\ wsmeta # None
            /\ n >= 1
            /\ Some(ws2) # wsmeta
            /\ wsmeta' = Some(ws2)
            /\ scall' = [NoSCall EXCEPT !.op = "set_tables"]
            /\ streak' = NoStreak
            /\ UNCHANGED <<corpus, current, psmeta, parents>>
            /\ OtherIdle

\* scheduler.on_add(state, idx), once for a testcase of the corpus
OnAdd ==
    \E idx \in 0..(Len(corpus) - 1) :
        LET r == on_add(State, idx)
        IN  /\ Running
            /\ At(corpus, idx).meta = None
            /\ Commit(r.st)
            /\ parents' = IF r.st.corpus # corpus
                          THEN [parents EXCEPT ![idx + 1] = current]
                          ELSE parents
            /\ scall' = [op |-> "on_add", res |-> r.res, ret |-> None, idx |-> Some(idx),
                         rebuild |-> r.rebuild, draws |-> 0, r |-> None,
                         before |-> State]
            /\ streak' = NoStreak
            /\ OtherIdle

\* scheduler.create_alias_table(state)
Rebuild ==
    LET r == create_alias_table(State)
    IN  /\ Running
        /\ Commit(r.st)
        /\ scall' = [op |-> "create_alias_table", res |-> r.res, ret |-> None,
                     idx |-> None, rebuild |-> Some(r.res), draws |-> 0,
                     r |-> None, before |-> State]
        /\ streak' = NoStreak
        /\ UNCHANGED parents
        /\ OtherIdle

\* the run of successful next() calls, counted from a call made at runs = 0
\* with the queue-cycle counter registered, up to the corpus count
StreakAfter(r) ==
    IF r.res # "Ok" \/ psmeta = None
    THEN NoStreak
    ELSE IF streak.n = 0
    THEN IF unwrap(wsmeta).runs_in_current_cycle = 0
         THEN [n |-> 1, cyc0 |-> unwrap(psmeta).queue_cycles]
         ELSE NoStreak
    ELSE IF streak.n < Len(corpus)
    THEN [streak EXCEPT !.n = @ + 1]
    ELSE NoStreak

\* scheduler.next(state)
NextEntry ==
    \E r \in Rand :
        LET out == next(State, r)
        IN  /\ Running
            /\ psmeta # None => unwrap(psmeta).queue_cycles < MaxCycles
            /\ Commit(out.st)
            /\ scall' = [op |-> "next", res |-> out.res, ret |-> out.ret, idx |-> None,
                         rebuild |-> None, draws |-> out.draws,
                         r |-> IF out.draws = 1 THEN Some(r) ELSE None,
                         before |-> State]
            /\ streak' = StreakAfter(out)
            /\ UNCHANGED parents
            /\ OtherIdle

InitScheduler ==
    /\ fs = [p \in Path |-> None]
    /\ held = None
    /\ call = NoCall
    /\ fresh = FALSE
    /\ lastSaved = None
    /\ testcase = default
    /\ tcall = NoTCall
    /\ MetadataIdle
    /\ SchedulerIdle
    /\ StateIdle

NextScheduler ==
    \/ CorpusAdd
    \/ SetCurrent
    \/ RegisterPowerSchedule
    \/ RegisterWeighted
    \/ SetRuns
    \/ OnAdd
    \/ Rebuild
    \/ NextEntry

SpecScheduler == InitScheduler /\ [][NextScheduler]_vars

\* The selection on its own: a corpus, the scheduler's metadata with tables
\* installed through its setters, and next()
NextSelect ==
    \/ CorpusAdd
    \/ RegisterWeighted
    \/ SetTables
    \/ NextEntry

SpecSelect == InitScheduler /\ [][NextSelect]_vars

-----------------------------------------------------------------------------
(* The owners of StdState values and of the handles to their states *)

SeenAll == [i \in 1..Len(states) |-> Seen(states[i], heap)]

StIdle == UNCHANGED <<fs, fbVars, tcVars, mdVars, wsVars>>

\* state.clone()
CloneState ==
    \E i \in 1..Len(states) :
        LET r == clone(states[i], heap)
        IN  /\ Len(states) < MaxStates
            /\ states' = Append(states, r.val)
            /\ heap' = r.heap
            /\ stcall' = [op |-> "clone", state |-> Some(i), handle |-> None,
                          v |-> None, before |-> SeenAll]
            /\ UNCHANGED handles
            /\ StIdle

\* state.feedback_objective_states()
GetStates ==
    \E i \in 1..Len(states) :
        /\ Len(handles) < MaxHandles
        /\ handles' = Append(handles, [rc |-> feedback_objective_states(states[i]),
                                       of |-> i])
        /\ stcall' = [op |-> "feedback_objective_states", state |-> Some(i),
                      handle |-> None, v |-> None, before |-> SeenAll]
        /\ UNCHANGED <<heap, states>>
        /\ StIdle

\* *handle.borrow_mut() = v, by the holder of a handle
SetStates ==
    \E h \in 1..Len(handles), v \in FOStates :
        /\ v # Through(handles[h], heap)
        /\ heap' = borrow_mut_set(heap, handles[h].rc, v)
        /\ stcall' = [op |-> "set", state |-> Some(handles[h].of), handle |-> Some(h),
                      v |-> Some(v), before |-> SeenAll]
        /\ UNCHANGED <<states, handles>>
        /\ StIdle

\* StdState::new(..): a new Rc around the initial feedback and objective states
InitState ==
    /\ fs = [p \in Path |-> None]
    /\ held = None
    /\ call = NoCall
    /\ fresh = FALSE
    /\ lastSaved = None
    /\ testcase = default
    /\ tcall = NoTCall
    /\ MetadataIdle
    /\ SchedulerIdle
    /\ \E v \in FOStates :
        LET n == Rc_new([c \in Cell |-> None], v)
        IN  /\ heap = n.heap
            /\ states = <<[feedback_objective_states |-> n.rc]>>
    /\ handles = <<>>
    /\ stcall = NoStCall

NextState ==
    \/ CloneState
    \/ GetStates
    \/ SetStates

SpecState == InitState /\ [][NextState]_vars

-----------------------------------------------------------------------------
(* Properties of the file-backed lifecycle (checked under Spec) *)

\* The bytes a completed save of `input` leaves in its file
OnDisk(input) == Some(serialize(input, IoOk).bytes)

SaveEvents(fn) == <<Ev("create", fn), Ev("write", fn)>>

\* C1: load() on a Dirty testcase fails with IllegalState, and afterwards the
\* caller still has the same Dirty testcase (same input, same filename) and
\* the file system is as before.
C1_LoadDirtyFailsAndKeeps ==
    \A t \in call.self :
        (call.op = "load" /\ t.tag = "Dirty")
            => /\ call.res = "IllegalState"
               /\ held = Some(t)
               /\ fs = call.fs0

\* C2: after a successful unload() of a Dirty testcase a save has been
\* performed: the backing file holds exactly the serialized dirty input.
C2_UnloadDirtySaves ==
    \A t \in call.self :
        (call.op = "unload" /\ t.tag = "Dirty" /\ call.res = "Ok")
            => /\ fs[t.filename] = OnDisk(unwrap(t.input))
               /\ call.events = SaveEvents(t.filename)

C2_Witness ==
    \E t \in call.self :
        /\ call.op = "unload" /\ t.tag = "Dirty" /\ call.res = "Ok"
        /\ call.fs0[t.filename] # fs[t.filename]
        /\ unwrap(t.input).bytes # <<>>

\* C3: every successful unload() leaves the caller with a Stored testcase,
\* which holds no in-memory input.
C3_UnloadEndsStored ==
    (call.op = "unload" /\ call.res = "Ok")
        => /\ held # None
           /\ \A t \in held : t.tag = "Stored" /\ t.input = None

\* C4: whenever the testcase is Loaded, its in-memory input is identical to
\* the content of its backing file (the content last written or read).
C4_LoadedInSync ==
    \A t \in held :
        t.tag = "Loaded" => fs[t.filename] = OnDisk(unwrap(t.input))

\* a Loaded testcase produced by a save that changed the file, while Dirty
\* testcases do differ from their file
C4_Witness ==
    \E t \in held, t0 \in call.self :
        /\ t.tag = "Loaded" /\ t0.tag = "Dirty"
        /\ call.op \in {"save", "refresh", "unload"}
        /\ call.fs0[t0.filename] # OnDisk(unwrap(t0.input))
        /\ fs # call.fs0

\* C5: save() on Loaded returns the same testcase and leaves the files alone;
\* save() on Dirty, when creating and writing the file succeed, overwrites
\* the backing file with the serialized input and returns Loaded with the
\* same input and filename; save() on Stored fails with IllegalState.
C5_SaveContract ==
    \A t \in call.self :
        call.op = "save" =>
            /\ t.tag = "Loaded"
                => /\ call.res = "Ok" /\ held = Some(t)
                   /\ fs = call.fs0 /\ call.events = <<>>
            /\ (t.tag = "Dirty" /\ call.io = IoOk)
                => /\ call.res = "Ok"
                   /\ held = Some(Loaded(unwrap(t.input), t.filename))
                   /\ fs = [call.fs0 EXCEPT ![t.filename] = OnDisk(unwrap(t.input))]
            /\ t.tag = "Stored"
                => /\ call.res = "IllegalState"
                   /\ fs = call.fs0 /\ call.events = <<>>

C5_Witness ==
    \E t \in call.self :
        /\ call.op = "save" /\ t.tag = "Dirty" /\ call.res = "Ok"
        /\ call.fs0[t.filename] \notin {None, OnDisk(unwrap(t.input))}

\* C6: load() on Stored with a readable backing file returns Loaded with the
\* deserialized content of that file and the same filename; load() on Loaded
\* returns the same testcase and touches no file.
C6_LoadContract ==
    \A t \in call.self :
        call.op = "load" =>
            /\ (t.tag = "Stored" /\ call.fs0[t.filename] # None /\ call.io = IoOk)
                => /\ call.res = "Ok"
                   /\ held = Some(Loaded(deserialize(unwrap(call.fs0[t.filename])),
                                         t.filename))
                   /\ fs = call.fs0
            /\ t.tag = "Loaded"
                => /\ call.res = "Ok" /\ held = Some(t)
                   /\ call.events = <<>> /\ fs = call.fs0

C6_Witness ==
    \E t \in call.self, h \in held :
        /\ call.op = "load" /\ t.tag = "Stored" /\ call.res = "Ok"
        /\ unwrap(h.input).bytes # <<>>

\* C7: refresh() gives on Dirty what save() gives and on Stored or Loaded what
\* load() gives; after a successful refresh() the testcase is Loaded and its
\* input equals the content of the backing file.
C7_RefreshRoutes ==
    \A t \in call.self :
        call.op = "refresh" =>
            LET r == IF t.tag = "Dirty"
                     THEN save(t, call.fs0, call.io)
                     ELSE load(t, call.fs0, call.io)
            IN  /\ call.res = r.res /\ held = r.val
                /\ fs = r.fs /\ call.events = r.events
                /\ call.res = "Ok"
                    => \A h \in held :
                           /\ h.tag = "Loaded"
                           /\ fs[h.filename] = OnDisk(unwrap(h.input))

C7_Witness ==
    \E t \in call.self :
        /\ call.op = "refresh" /\ t.tag = "Dirty" /\ call.res = "Ok"
        /\ fs # call.fs0

\* C8: round trip: an input saved from a Dirty testcase and then loaded
\* through a fresh Stored testcase naming the same path is the input saved.
C8_RoundTrip ==
    \A t \in call.self, s \in lastSaved, h \in held :
        (call.op = "load" /\ call.fresh /\ call.res = "Ok" /\ s.path = t.filename)
            => h.input = Some(s.input)

C8_Witness ==
    \E t \in call.self, s \in lastSaved, h \in held :
        /\ call.op = "load" /\ call.fresh /\ call.res = "Ok" /\ s.path = t.filename
        /\ Len(s.input.bytes) = MaxLen

\* C9: a load() or save() that fails with an I/O error leaves the testcase
\* with the caller exactly as it was, and leaves no partly written file.
C9_IoErrorLeavesAllAsBefore ==
    (call.op \in {"load", "save"} /\ call.res = "IoError")
        => /\ held = call.self
           /\ fs = call.fs0

\* C25: the backing filename never changes: a successful load, save, refresh
\* or unload returns a testcase with the filename of its receiver, and a call,
\* successful or not, opens, creates, reads, writes and changes no file other
\* than that one.
C25_FilenameFixed ==
    call.op \in {"load", "save", "refresh", "unload"} =>
        \A self \in call.self :
            /\ \A t \in held : call.res = "Ok" => t.filename = self.filename
            /\ \A p \in Path \ {self.filename} : fs[p] = call.fs0[p]
            /\ \A k \in 1..Len(call.events) : call.events[k].path = self.filename

\* a Dirty testcase was saved to its file while another file was there
C25_Witness ==
    /\ call.op \in {"save", "refresh", "unload"}
    /\ call.res = "Ok"
    /\ call.events # <<>>
    /\ \E self \in call.self, t \in held :
        /\ self.tag = "Dirty"
        /\ t.filename = self.filename
        /\ \E p \in Path \ {self.filename} : fs[p] # None

-----------------------------------------------------------------------------
(* Properties of Testcase::load_input (checked under SpecTestcase) *)

\* C10: load_input() returns the in-memory input without touching a file when
\* one is present; with no input but a filename whose file is readable it
\* opens the file once, caches the input in the testcase and returns it; with
\* neither it fails with EmptyOptional and changes nothing.
C10_LoadInputLazy ==
    tcall.op = "load_input" =>
        LET t == tcall.self
        IN  /\ t.input # None
                => /\ tcall.res = "Ok" /\ tcall.ret = t.input
                   /\ tcall.events = <<>> /\ testcase = t
            /\ (t.input = None /\ t.filename # None /\ tcall.io = IoOk
                    /\ fs[unwrap(t.filename)] # None)
                => /\ tcall.res = "Ok"
                   /\ tcall.ret = Some(deserialize(unwrap(fs[unwrap(t.filename)])))
                   /\ testcase = [t EXCEPT !.input = tcall.ret]
                   /\ Cardinality({k \in DOMAIN tcall.events :
                                       tcall.events[k].kind = "open"}) = 1
            /\ (t.input = None /\ t.filename = None)
                => /\ tcall.res = "EmptyOptional" /\ tcall.events = <<>>
                   /\ testcase = t

\* the input was read from the file and is now cached
C10_Witness ==
    /\ tcall.op = "load_input" /\ tcall.self.input = None /\ tcall.res = "Ok"
    /\ testcase.input # None
    /\ unwrap(testcase.input).bytes # <<>>

-----------------------------------------------------------------------------
(* Properties of the metadata stores (checked under SpecMetadata) *)

AtMostOnePerKey(map) ==
    \A k \in MetaType : Cardinality({e \in map : e.key = k}) <= 1

\* what an insertion of `meta` must have made of the store `before`
InsertedInto(before, after, meta) ==
    /\ get(after, meta.type) = Some(meta)
    /\ has_metadata(after, meta.type)
    /\ \A k \in MetaType \ {meta.type} : get(after, k) = get(before, k)

\* C11: each store holds at most one instance per type; a get after an insert
\* of a type returns the value inserted, a second insert of the type replaces
\* the first and leaves the entries of the other types as they were, and a get
\* or has_metadata of a type never inserted finds nothing.
C11_MetadataStore ==
    /\ AtMostOnePerKey(metadatas) /\ AtMostOnePerKey(metadata)
    /\ \A meta \in mcall.meta :
           /\ mcall.store = "testcase" => InsertedInto(mcall.before, metadatas, meta)
           /\ mcall.store = "state" => InsertedInto(mcall.before, metadata, meta)
    /\ \A k \in MetaType \ everIn.testcase :
           get(metadatas, k) = None /\ ~has_metadata(metadatas, k)
    /\ \A k \in MetaType \ everIn.state :
           get(metadata, k) = None /\ ~has_metadata(metadata, k)

\* a second insert of a type replaced a different first value, another type
\* is stored beside it and a third was never inserted
C11_Witness ==
    \E meta \in mcall.meta :
        /\ mcall.store = "testcase"
        /\ get(mcall.before, meta.type) \notin {None, Some(meta)}
        /\ \E k \in MetaType \ {meta.type} : get(metadatas, k) # None
        /\ everIn.testcase # MetaType
        /\ metadata # {}

-----------------------------------------------------------------------------
(* Properties of the weighted scheduler (checked under SpecScheduler) *)

RECURSIVE SumUpTo(_, _)
\* f[0] + ... + f[k], for f a function of the indices
SumUpTo(f, k) == IF k < 0 THEN 0 ELSE f[k] + SumUpTo(f, k - 1)

RECURSIVE Distance(_)
\* the number of ancestors of testcase i: 0 for one added with no selection
Distance(i) ==
    IF At(parents, i) = None THEN 0 ELSE 1 + Distance(unwrap(At(parents, i)))

Depth(i) == unwrap(At(corpus, i).meta).depth

\* the last call was an on_add that attached metadata to testcase idx
Stamped(idx) ==
    /\ scall.op = "on_add" /\ scall.idx = Some(idx)
    /\ At(corpus, idx).meta # None

C13_CycleAfterNCalls ==
    (streak.n > 0 /\ streak.n = Len(corpus))
        => /\ unwrap(psmeta).queue_cycles = streak.cyc0 + 1
           /\ unwrap(wsmeta).runs_in_current_cycle = 0

\* C14: next() on an empty corpus fails with the empty-corpus error and
\* changes nothing: metadata, queue cycles, corpus, random source.
C14_EmptyCorpus ==
    (scall.op = "next" /\ scall.before.corpus = <<>>)
        => /\ scall.res = "Empty" /\ scall.ret = None
           /\ State = scall.before
           /\ scall.draws = 0

\* next() on an empty corpus, with both metadata registered and a count of
\* runs that a next() on a corpus would reset
C14_Witness ==
    /\ scall.op = "next" /\ scall.before.corpus = <<>>
    /\ scall.res = "Empty"
    /\ psmeta # None
    /\ \E ws \in wsmeta : ws.runs_in_current_cycle > 0

\* every testcase of the corpus has been reported through on_add
AllStamped == \A i \in 0..(Len(corpus) - 1) : At(corpus, i).meta # None

\* C15: whenever next() returns an index, every growth of the corpus having
\* been reported through on_add, alias_table, alias_probability and
\* perf_scores each have the length of the corpus.
C15_TablesMatchCorpus ==
    (scall.op = "next" /\ scall.res = "Ok" /\ AllStamped)
        => \A ws \in wsmeta :
               /\ Len(ws.alias_table) = Len(corpus)
               /\ Len(ws.alias_probability) = Len(corpus)
               /\ Len(ws.perf_scores) = Len(corpus)

\* a rebuild (on its own or inside on_add) has just succeeded on n >= 1 testcases
Rebuilt == scall.rebuild = Some("Ok") /\ Len(corpus) >= 1

\* C16: after a successful rebuild on a corpus of n >= 1, for every i in 0..n
\* the stored alias_probability[i] is in [0, 1] and the stored alias_table[i]
\* is an index in [0, n).
C16_TablesWellFormed ==
    Rebuilt
        => \A ws \in wsmeta : \A i \in 0..(Len(corpus) - 1) :
                  /\ InRange(ws.alias_probability, i)
                  /\ At(ws.alias_probability, i) >= 0
                  /\ At(ws.alias_probability, i) <= 1
                  /\ InRange(ws.alias_table, i)
                  /\ At(ws.alias_table, i) \in 0..(Len(corpus) - 1)

\* the scores p_i the rebuild computes
Scores == [i \in 0..(Len(corpus) - 1) |-> calculate_score(At(corpus, i), psmeta, 0)]

\* C17: after a successful rebuild from scores p, the chance that next()
\* returns i, (1/n) * (alias_probability[i] + the sum over the j aliased to i
\* of 1 - alias_probability[j]), is p_i / sum(p) (stated multiplied out by
\* n * sum(p), which is also the conservation of the mass n of the weights).
C17_AliasDistribution ==
    Rebuilt
        => LET n == Len(corpus)
               sum == SumUpTo(Scores, n - 1)
           IN  \A ws \in wsmeta :
                      /\ Len(ws.alias_probability) = n
                      /\ Len(ws.alias_table) = n
                      /\ \A i \in 0..(n - 1) :
                             LET given == [j \in 0..(n - 1) |->
                                              IF At(ws.alias_table, j) = i
                                              THEN 1 - At(ws.alias_probability, j)
                                              ELSE 0]
                             IN  sum * (At(ws.alias_probability, i)
                                            + SumUpTo(given, n - 1))
                                     = n * Scores[i]

\* C18: a rebuild or a next() that returns an error leaves the tables,
\* runs_in_current_cycle and the queue-cycle counter as they were.
C18_FailureAtomic ==
    (\/ scall.op \in {"next", "create_alias_table"} /\ scall.res \notin {"Ok", "panic"}
     \/ \E rb \in scall.rebuild : rb \notin {"Ok", "panic"})
        => /\ wsmeta = scall.before.wsmeta
           /\ psmeta = scall.before.psmeta

\* next() failed on the missing PowerScheduleMetadata, a cycle being complete
C18_Witness ==
    /\ scall.op = "next" /\ scall.res = "KeyNotFound"
    /\ \E ws \in scall.before.wsmeta :
           ws.runs_in_current_cycle > Len(scall.before.corpus)

\* C19: no scheduler call aborts: next() and on_add() end in a value or in an
\* error value, never in a panic on an index past the end of a table.
C19_NoAbort == scall.res # "panic"

\* C20: an error of the rebuild is returned by the on_add() or next() that
\* ran the rebuild.
C20_RebuildErrorReturned ==
    \A rb \in scall.rebuild :
        (scall.op \in {"on_add", "next"} /\ rb \notin {"Ok", "panic"})
            => scall.res = rb

\* C21: create_alias_table on a corpus of size 0 fails with the empty-corpus
\* error, whatever the strategy of the registered PowerScheduleMetadata, and
\* stores no tables.  The error counted as the empty-corpus one is Error::Empty
\* or the Error::Unknown("Queue state corrput") of the COE arm.
C21_EmptyRebuildFails ==
    (/\ scall.op = "create_alias_table"
     /\ scall.before.corpus = <<>>
     /\ scall.before.psmeta # None)
        => /\ scall.res \in {"Empty", "Unknown"}
           /\ wsmeta = scall.before.wsmeta

\* C22: after a successful rebuild every testcase keeps a nonzero selection
\* probability: every stored perf_scores[i] is strictly positive, and for every
\* index i of the corpus some random draw makes next() return i.
C22_EveryoneSelectable ==
    Rebuilt =>
        \A ws \in wsmeta :
            \A i \in 0..(Len(corpus) - 1) :
                /\ InRange(ws.perf_scores, i)
                /\ At(ws.perf_scores, i) > 0
                /\ \E r \in Rand : next(State, r).ret = Some(i)

\* C24: the queue-cycle counter never decreases over on_add and next calls; it
\* changes only inside next(), by exactly +1, and together with
\* runs_in_current_cycle being reset to 0; a successful next() that does not
\* reset it makes runs_in_current_cycle grow by exactly 1.
C24_CycleAccounting ==
    /\ scall.op = "on_add" => psmeta = scall.before.psmeta
    /\ scall.op = "next" =>
        \/ /\ psmeta = scall.before.psmeta
           /\ scall.res = "Ok" =>
                \A ws0 \in scall.before.wsmeta, ws \in wsmeta :
                    ws.runs_in_current_cycle = ws0.runs_in_current_cycle + 1
        \/ /\ \E ps0 \in scall.before.psmeta, ps \in psmeta :
                ps = [ps0 EXCEPT !.queue_cycles = @ + 1]
           /\ \A ws \in wsmeta : ws.runs_in_current_cycle = 0

-----------------------------------------------------------------------------
(* Properties of the selection (checked under SpecSelect) *)

\* tables of the corpus's length, every probability 0.0 or 1.0 and every alias
\* an index of the corpus
WellFormedTables(st) ==
    /\ st.wsmeta # None
    /\ \A ws \in st.wsmeta :
        /\ Len(ws.alias_probability) = Len(st.corpus)
        /\ Len(ws.alias_table) = Len(st.corpus)
        /\ \A i \in 0..(Len(st.corpus) - 1) :
            /\ At(ws.alias_probability, i) \in {0, 1}
            /\ At(ws.alias_table, i) \in 0..(Len(st.corpus) - 1)

\* C23: next() on a corpus of size n with well-formed tables draws s in [0, n)
\* and an independent u in [0, 1), and returns s when u < alias_probability[s]
\* and alias_table[s] otherwise: it returns a valid index, which is s itself
\* whenever alias_probability[s] = 1.0 and alias_table[s] whenever
\* alias_probability[s] = 0.0.
C23_SelectionRule ==
    (scall.op = "next" /\ scall.r # None /\ WellFormedTables(scall.before)) =>
        \A r \in scall.r, ws \in scall.before.wsmeta :
            LET n == Len(scall.before.corpus)
                s == r % n
            IN  /\ scall.res = "Ok"
                /\ \E i \in 0..(n - 1) : scall.ret = Some(i)
                /\ scall.ret = Some(IF At(ws.alias_probability, s) = 1
                                    THEN s
                                    ELSE At(ws.alias_table, s))

-----------------------------------------------------------------------------
(* Properties of StdState's feedback and objective states (checked under     *)
(* SpecState)                                                                *)

\* C27: clone() copies the feedback and objective states into a new cell, and
\* a mutation made through a handle of one state is seen through that state
\* and through every handle of that state, while every other state and its
\* handles see what they saw before.
C27_CloneOwnStates ==
    /\ stcall.op = "clone" =>
        \A i \in stcall.state :
            /\ Seen(states[Len(states)], heap) = stcall.before[i]
            /\ \A j \in 1..Len(stcall.before) : Seen(states[j], heap) = stcall.before[j]
    /\ stcall.op = "set" =>
        \A i \in stcall.state, v \in stcall.v :
            /\ \A j \in 1..Len(states) :
                Seen(states[j], heap) = IF j = i THEN v ELSE stcall.before[j]
            /\ \A g \in 1..Len(handles) :
                Through(handles[g], heap) =
                    IF handles[g].of = i THEN v ELSE stcall.before[handles[g].of]

\* the clone's states were set through one of two handles to them, a handle to
\* the original's being held as well
C27_Witness ==
    /\ stcall.op = "set"
    /\ \E h \in stcall.handle, v \in stcall.v :
        \E g, o \in 1..Len(handles) :
            /\ g # h
            /\ handles[h].of = 2
            /\ handles[g].of = 2
            /\ handles[o].of = 1
            /\ Through(handles[g], heap) = v
            /\ Through(handles[o], heap) # v

=============================================================================
